---- MODULE Spec2Model ----
(***************************************************************************)
(* Model of the entity-component-system registry of SimpleEntEngine        *)
(* (engine/src/ECS/ECS.hpp, ECS.cpp, engine/src/Utils/Pool.hpp).           *)
(*                                                                         *)
(* The state is the private state of Registry plus the member lists of the *)
(* registered systems.  Every public operation of Registry is one action.  *)
(* `call` records the operation that produced the current state together   *)
(* with its arguments, its return value and what it wrote to std::cerr.    *)
(***************************************************************************)
EXTENDS Integers, Sequences, FiniteSets, TLC

\* ------------------------------------------------------------------ bounds
\* cap on numEntity (the high-water counter only ever grows)
MaxEntities == 2
\* cap on the length of freeIds (ClearAllEntities/Update can push an id twice)
MaxFree == 2
\* cap on numEntity in the specifications that also attach components
MaxSceneEntities == 1

\* ids a registry of PoolDefaultSize entities may still hand out
MaxGrown == 1

\* cap on the length of a member list that is filled by direct calls
MaxMembers == 3

\* cap on the number of subscriptions between two calls of Reset
MaxHandlers == 3

\* --------------------------------------------------------------- constants
\* entityComponentSignatures.resize(entityId + 100)
SignatureGrowth == 100
\* Pool(int size = 1000)
PoolDefaultSize == 1000
\* componentPool->Resize(numEntity + 100)
PoolGrowth == 100

\* component types used by the model (Component<T>::GetId() is a bit index)
Components == {"Transform", "Sprite"}
\* values a component may be constructed with; 0 is the value-initialised slot
Values == {1, 2}
DefaultValue == 0
\* system types used by the model
SystemTypes == {"RenderSystem", "AudioSystem"}

\* entity ids that can be allocated within the bound
Ids == 0 .. (MaxEntities - 1)
\* ids a caller may pass in an Entity handle (also stale or never allocated)
Handles == 0 .. MaxEntities

VARIABLES
    numEntity,                  \* int numEntity
    entityComponentSignatures,  \* vector<Signature>, entries of allocated ids
    sigTableSize,               \* entityComponentSignatures.size()
    poolSize,                   \* componentsPools[c]->GetSize(), 0 = no pool
    poolData,                   \* componentsPools[c]->data[e]
    systems,                    \* unordered_map<type_index, shared_ptr<System>>
    entitiesToBeAdded,          \* set<Entity>
    entitiesToBeKilled,         \* set<Entity>
    freeIds,                    \* deque<int>
    activeEntityIds,            \* set<int>
    crashed,                    \* the process was terminated by a fault
    call,                       \* the last operation, its inputs and outputs
    iteration,                  \* the System::Update pass in progress, if any
    game,                       \* Game: position in RunScene, isPaused
    subscribers,                \* EventManager: map<type_index, HandlerList>
    events                      \* what the EventManager was asked and did

registry == <<numEntity, entityComponentSignatures, sigTableSize, poolSize,
              poolData, systems, entitiesToBeAdded, entitiesToBeKilled,
              freeIds, activeEntityIds>>
\* what the callers of the registry keep between its operations
frame == <<iteration, game, subscribers, events>>
vars == <<numEntity, entityComponentSignatures, sigTableSize, poolSize,
          poolData, systems, entitiesToBeAdded, entitiesToBeKilled,
          freeIds, activeEntityIds, crashed, call, iteration, game,
          subscribers, events>>

\* op, the entity, component type, value and system type passed (e is the
\* returned id for CreateEntity), err what went to std::cerr; had and old
\* are what the call found in place of what it writes: for AddComponent and
\* RemoveComponent whether the bit was set and the value in the pool slot, for
\* KillEntity whether a member list held the entity, for Update whether an
\* entity was staged for killing and how many of them were also staged for
\* adding, for ClearAllEntities whether a member list
\* held an active entity, for AddSystem, RemoveSystem and
\* GetSystem whether the type was registered
NoCall == [op |-> "none", e |-> -1, c |-> "none", v |-> 0, s |-> "none",
           err |-> "none", had |-> FALSE, old |-> 0]

\* no system is iterating: s is the system type of the pass, snapshot the
\* copy of the member list GetSystemEntities returned, pos the number of
\* entities of the copy the pass has processed
NoIteration == [s |-> "none", snapshot |-> <<>>, pos |-> 0]

\* Game before RunScene: at is the statement of RunScene, update or render
\* the game is at, isPaused the flag of the same name, updates the number of
\* calls of Registry::Update since the frame began
NoGame == [at |-> "LoadScene", isPaused |-> FALSE, updates |-> 0]

\* event types and the systems whose member functions are the handlers
EventTypes == {"CollisionEvent", "ClickEvent"}
Owners == {"OverlapSystem", "UISystem"}

\* subscribed: the calls of SubscribeToEvent since the last Reset, each the
\* event type and the owner of the handler; emitted and invoked: the event
\* type of the EmitEvent that led to this state and the handlers it executed
NoEvents == [subscribed |-> <<>>, emitted |-> "none", invoked |-> <<>>]

\* the unique_ptr<HandlerList> that operator[] default-constructs
NullList == "nullptr"

\* ------------------------------------------------------------------ System
\* the required signature each system sets in its constructor
RequiredSignature(s) ==
    IF s = "RenderSystem" THEN {"Sprite", "Transform"} ELSE {}

\* a freshly constructed system: its signature and an empty member list
NewSystem(s) == [componentSignature |-> RequiredSignature(s), entities |-> <<>>]

\* System::AddEntityToSystem
AddEntityToSystem(sys, e) == [sys EXCEPT !.entities = Append(@, e)]

\* RemoveEntityFromSystem that erases the first occurrence only
RECURSIVE RemoveEntityFromSystem_FirstOnly(_, _)
RemoveEntityFromSystem_FirstOnly(sys, e) ==
    IF sys.entities = <<>> THEN sys
    ELSE IF Head(sys.entities) = e
         THEN [sys EXCEPT !.entities = Tail(@)]
         ELSE [sys EXCEPT !.entities =
                  <<Head(sys.entities)>> \o
                  RemoveEntityFromSystem_FirstOnly(
                      [sys EXCEPT !.entities = Tail(@)], e).entities]

\* System::RemoveEntityFromSystem: remove_if + erase
RemoveEntityFromSystem(sys, e) ==
    [sys EXCEPT !.entities = SelectSeq(@, LAMBDA other : ~(e = other))]

\* System::GetSystemEntities as a set
Members(sys) == {sys.entities[i] : i \in 1 .. Len(sys.entities)}

\* ---------------------------------------------------------------- Registry
\* the ids whose signature and pool slots the model keeps; an id beyond them
\* is not handed out (MaxEntities of them from the constructor on)
TrackedIds == DOMAIN entityComponentSignatures

\* iteration order of std::set<int> / std::set<Entity>: ascending id
RECURSIVE Ascending(_)
Ascending(S) ==
    IF S = {} THEN <<>>
    ELSE LET m == CHOOSE x \in S : \A y \in S : x <= y
         IN  <<m>> \o Ascending(S \ {m})

\* (entitySignature & systemSignature) == systemSignature
IsInterested(entitySig, systemSig) == systemSig \subseteq entitySig

\* AddEntityToSystems that is satisfied with one required component
AddEntityToSystems_AnyBit(sysmap, sigs, e) ==
    [s \in DOMAIN sysmap |->
        IF \/ sysmap[s].componentSignature = {}
           \/ sigs[e] \cap sysmap[s].componentSignature # {}
        THEN AddEntityToSystem(sysmap[s], e)
        ELSE sysmap[s]]

\* Registry::AddEntityToSystems
AddEntityToSystems(sysmap, sigs, e) ==
    [s \in DOMAIN sysmap |->
        IF IsInterested(sigs[e], sysmap[s].componentSignature)
        THEN AddEntityToSystem(sysmap[s], e)
        ELSE sysmap[s]]

\* RemoveEntityFromSystems that leaves the member lists alone
RemoveEntityFromSystems_Skipped(sysmap, e) == sysmap

\* Registry::RemoveEntityFromSystems
RemoveEntityFromSystems(sysmap, e) ==
    [s \in DOMAIN sysmap |-> RemoveEntityFromSystem(sysmap[s], e)]

\* CreateEntity that takes the counter's value without incrementing it
TakeId_NoIncrement(free, num, size) ==
    IF free = <<>>
    THEN [id |-> num, free |-> free, num |-> num,
          size |-> IF num >= size THEN num + SignatureGrowth ELSE size]
    ELSE [id |-> Head(free), free |-> Tail(free), num |-> num, size |-> size]

\* CreateEntity that never resizes the signature table
TakeId_NoResize(free, num, size) ==
    IF free = <<>>
    THEN [id |-> num, free |-> free, num |-> num + 1, size |-> size]
    ELSE [id |-> Head(free), free |-> Tail(free), num |-> num, size |-> size]

\* one id taken as CreateEntity takes it: the front of freeIds when there is
\* one, otherwise numEntity++ with the signature table grown on demand
TakeId(free, num, size) ==
    IF free = <<>>
    THEN [id |-> num, free |-> free, num |-> num + 1,
          size |-> IF num >= size THEN num + SignatureGrowth ELSE size]
    ELSE [id |-> Head(free), free |-> Tail(free), num |-> num, size |-> size]

\* CreateEntity without its while loop
SkipActive_NoLoop(t, active) == t

\* the while loop of CreateEntity: take ids until one is not active
RECURSIVE SkipActive(_, _)
SkipActive(t, active) ==
    IF t.id \in active
    THEN SkipActive(TakeId(t.free, t.num, t.size), active)
    ELSE t

\* CreateEntity without the test of entitiesToBeKilled
AllocateId_NoKillTest(free, num, size, active, killed, err) ==
    LET t == SkipActive(TakeId(free, num, size), active)
    IN  [id |-> t.id, free |-> t.free, num |-> t.num, size |-> t.size,
         err |-> err]

\* the id CreateEntity settles on, with the allocator state it leaves; the
\* function calls itself again when the id is staged in entitiesToBeKilled
RECURSIVE AllocateId(_, _, _, _, _, _)
AllocateId(free, num, size, active, killed, err) ==
    LET t == SkipActive(TakeId(free, num, size), active)
    IN  IF t.id \notin killed
        THEN [id |-> t.id, free |-> t.free, num |-> t.num, size |-> t.size,
              err |-> err]
        ELSE AllocateId(t.free, t.num, t.size, active, killed,
                        "reuse of id marked for killing")

\* CreateEntity settles on an id after at most `takes` ids taken: the while
\* loop and the recursive call both go on exactly when the id taken is
\* active or staged for killing
RECURSIVE EndsWithin(_, _, _, _, _, _)
EndsWithin(free, num, size, active, killed, takes) ==
    IF takes = 0 THEN FALSE
    ELSE LET t == TakeId(free, num, size)
         IN  \/ t.id \notin active \cup killed
             \/ EndsWithin(t.free, t.num, t.size, active, killed, takes - 1)

Init ==
    /\ numEntity = 0
    /\ entityComponentSignatures = [e \in Ids |-> {}]
    /\ sigTableSize = 0
    /\ poolSize = [c \in Components |-> 0]
    /\ poolData = [c \in Components |-> [e \in Ids |-> DefaultValue]]
    /\ systems = << >>
    /\ entitiesToBeAdded = {}
    /\ entitiesToBeKilled = {}
    /\ freeIds = <<>>
    /\ activeEntityIds = {}
    /\ crashed = FALSE
    /\ call = NoCall
    /\ iteration = NoIteration
    /\ game = NoGame
    /\ subscribers = << >>
    /\ events = NoEvents

\* Registry::CreateEntity
CreateEntity ==
    /\ ~crashed
    /\ UNCHANGED frame
    /\ LET a == AllocateId(freeIds, numEntity, sigTableSize, activeEntityIds,
                           entitiesToBeKilled, "none")
       IN  /\ a.id \in TrackedIds
           /\ numEntity' = a.num
           /\ sigTableSize' = a.size
           /\ freeIds' = a.free
           /\ entitiesToBeAdded' = entitiesToBeAdded \cup {a.id}
           /\ activeEntityIds' = activeEntityIds \cup {a.id}
           /\ call' = [NoCall EXCEPT !.op = "CreateEntity", !.e = a.id,
                                     !.err = a.err]
    /\ UNCHANGED <<entityComponentSignatures, poolSize, poolData, systems,
                   entitiesToBeKilled, crashed>>

\* some member list of the map holds the entity
Listed(sysmap, e) == \E s \in DOMAIN sysmap : e \in Members(sysmap[s])

\* KillEntity without the test of activeEntityIds
KillEntity_NoActiveTest(entity) ==
    /\ ~crashed
    /\ UNCHANGED frame
    /\ systems' = RemoveEntityFromSystems(systems, entity)
    /\ entityComponentSignatures' =
           [e \in TrackedIds |-> IF e = entity THEN {}
                          ELSE entityComponentSignatures[e]]
    /\ entitiesToBeKilled' = entitiesToBeKilled \cup {entity}
    /\ call' = [NoCall EXCEPT !.op = "KillEntity", !.e = entity,
                              !.had = Listed(systems, entity)]
    /\ UNCHANGED <<numEntity, sigTableSize, poolSize, poolData,
                   entitiesToBeAdded, freeIds, activeEntityIds, crashed>>

\* KillEntity that leaves the signature to Update
KillEntity_KeepSignature(entity) ==
    /\ ~crashed
    /\ UNCHANGED frame
    /\ IF entity \notin activeEntityIds
       THEN /\ call' = [NoCall EXCEPT !.op = "KillEntity", !.e = entity,
                                      !.err = "kill of non-existent entity"]
            /\ UNCHANGED registry
       ELSE /\ systems' = RemoveEntityFromSystems(systems, entity)
            /\ entitiesToBeKilled' = entitiesToBeKilled \cup {entity}
            /\ call' = [NoCall EXCEPT !.op = "KillEntity", !.e = entity,
                                      !.had = Listed(systems, entity)]
            /\ UNCHANGED <<numEntity, entityComponentSignatures, sigTableSize,
                           poolSize, poolData, entitiesToBeAdded, freeIds,
                           activeEntityIds>>
    /\ UNCHANGED crashed

\* Registry::KillEntity
KillEntity(entity) ==
    /\ ~crashed
    /\ UNCHANGED frame
    /\ IF entity \notin activeEntityIds
       THEN /\ call' = [NoCall EXCEPT !.op = "KillEntity", !.e = entity,
                                      !.err = "kill of non-existent entity"]
            /\ UNCHANGED registry
       ELSE /\ systems' = RemoveEntityFromSystems(systems, entity)
            /\ entityComponentSignatures' =
                   [entityComponentSignatures EXCEPT ![entity] = {}]
            /\ entitiesToBeKilled' = entitiesToBeKilled \cup {entity}
            /\ call' = [NoCall EXCEPT !.op = "KillEntity", !.e = entity,
                                      !.had = Listed(systems, entity)]
            /\ UNCHANGED <<numEntity, sigTableSize, poolSize, poolData,
                           entitiesToBeAdded, freeIds, activeEntityIds>>
    /\ UNCHANGED crashed

\* the first loop of Registry::Update
RECURSIVE AddPass(_, _, _)
AddPass(sysmap, sigs, order) ==
    IF order = <<>> THEN sysmap
    ELSE AddPass(AddEntityToSystems(sysmap, sigs, Head(order)), sigs,
                 Tail(order))

\* the removals of the second loop of Registry::Update and of the loop of
\* Registry::ClearAllEntities
RECURSIVE KillPass(_, _)
KillPass(sysmap, order) ==
    IF order = <<>> THEN sysmap
    ELSE KillPass(RemoveEntityFromSystems(sysmap, Head(order)), Tail(order))

\* Update that leaves the signatures of the killed entities as they are
Update_KeepSignatures ==
    /\ ~crashed
    /\ UNCHANGED frame
    /\ Len(freeIds) + Cardinality(entitiesToBeKilled) <= MaxFree
    /\ systems' = KillPass(AddPass(systems, entityComponentSignatures,
                                   Ascending(entitiesToBeAdded)),
                           Ascending(entitiesToBeKilled))
    /\ entitiesToBeAdded' = {}
    /\ activeEntityIds' = activeEntityIds \ entitiesToBeKilled
    /\ freeIds' = freeIds \o Ascending(entitiesToBeKilled)
    /\ entitiesToBeKilled' = {}
    /\ call' = [NoCall EXCEPT !.op = "Update",
                              !.had = entitiesToBeKilled # {},
                              !.old = Cardinality(entitiesToBeAdded
                                                  \cap entitiesToBeKilled)]
    /\ UNCHANGED <<numEntity, entityComponentSignatures, sigTableSize,
                   poolSize, poolData, crashed>>

\* Update that runs its second loop before its first
Update_KillPassFirst ==
    /\ ~crashed
    /\ UNCHANGED frame
    /\ Len(freeIds) + Cardinality(entitiesToBeKilled) <= MaxFree
    /\ systems' = AddPass(KillPass(systems, Ascending(entitiesToBeKilled)),
                          entityComponentSignatures,
                          Ascending(entitiesToBeAdded))
    /\ entitiesToBeAdded' = {}
    /\ entityComponentSignatures' =
           [e \in TrackedIds |-> IF e \in entitiesToBeKilled THEN {}
                          ELSE entityComponentSignatures[e]]
    /\ activeEntityIds' = activeEntityIds \ entitiesToBeKilled
    /\ freeIds' = freeIds \o Ascending(entitiesToBeKilled)
    /\ entitiesToBeKilled' = {}
    /\ call' = [NoCall EXCEPT !.op = "Update",
                              !.had = entitiesToBeKilled # {},
                              !.old = Cardinality(entitiesToBeAdded
                                                  \cap entitiesToBeKilled)]
    /\ UNCHANGED <<numEntity, sigTableSize, poolSize, poolData, crashed>>

\* Update that forgets to erase the killed ids from activeEntityIds
Update_KeepActive ==
    /\ ~crashed
    /\ UNCHANGED frame
    /\ Len(freeIds) + Cardinality(entitiesToBeKilled) <= MaxFree
    /\ systems' = KillPass(AddPass(systems, entityComponentSignatures,
                                   Ascending(entitiesToBeAdded)),
                           Ascending(entitiesToBeKilled))
    /\ entitiesToBeAdded' = {}
    /\ entityComponentSignatures' =
           [e \in TrackedIds |-> IF e \in entitiesToBeKilled THEN {}
                          ELSE entityComponentSignatures[e]]
    /\ freeIds' = freeIds \o Ascending(entitiesToBeKilled)
    /\ entitiesToBeKilled' = {}
    /\ call' = [NoCall EXCEPT !.op = "Update",
                              !.had = entitiesToBeKilled # {},
                              !.old = Cardinality(entitiesToBeAdded
                                                  \cap entitiesToBeKilled)]
    /\ UNCHANGED <<numEntity, sigTableSize, poolSize, poolData,
                   activeEntityIds, crashed>>

\* Registry::Update
Update ==
    /\ ~crashed
    /\ UNCHANGED frame
    /\ Len(freeIds) + Cardinality(entitiesToBeKilled) <= MaxFree
    /\ systems' = KillPass(AddPass(systems, entityComponentSignatures,
                                   Ascending(entitiesToBeAdded)),
                           Ascending(entitiesToBeKilled))
    /\ entitiesToBeAdded' = {}
    /\ entityComponentSignatures' =
           [e \in TrackedIds |-> IF e \in entitiesToBeKilled THEN {}
                          ELSE entityComponentSignatures[e]]
    /\ activeEntityIds' = activeEntityIds \ entitiesToBeKilled
    /\ freeIds' = freeIds \o Ascending(entitiesToBeKilled)
    /\ entitiesToBeKilled' = {}
    /\ call' = [NoCall EXCEPT !.op = "Update",
                              !.had = entitiesToBeKilled # {},
                              !.old = Cardinality(entitiesToBeAdded
                                                  \cap entitiesToBeKilled)]
    /\ UNCHANGED <<numEntity, sigTableSize, poolSize, poolData, crashed>>

\* ClearAllEntities that leaves the signatures to the next owner of the id
ClearAllEntities_KeepSignatures ==
    /\ ~crashed
    /\ UNCHANGED frame
    /\ Len(freeIds) + Cardinality(activeEntityIds) <= MaxFree
    /\ systems' = KillPass(systems, Ascending(activeEntityIds))
    /\ freeIds' = freeIds \o Ascending(activeEntityIds)
    /\ activeEntityIds' = {}
    /\ call' = [NoCall EXCEPT !.op = "ClearAllEntities",
                              !.had = \E e \in activeEntityIds :
                                          Listed(systems, e)]
    /\ UNCHANGED <<numEntity, entityComponentSignatures, sigTableSize,
                   poolSize, poolData, entitiesToBeAdded, entitiesToBeKilled,
                   crashed>>

\* Registry::ClearAllEntities
ClearAllEntities ==
    /\ ~crashed
    /\ UNCHANGED frame
    /\ Len(freeIds) + Cardinality(activeEntityIds) <= MaxFree
    /\ systems' = KillPass(systems, Ascending(activeEntityIds))
    /\ entityComponentSignatures' =
           [e \in TrackedIds |-> IF e \in activeEntityIds THEN {}
                          ELSE entityComponentSignatures[e]]
    /\ freeIds' = freeIds \o Ascending(activeEntityIds)
    /\ activeEntityIds' = {}
    /\ call' = [NoCall EXCEPT !.op = "ClearAllEntities",
                              !.had = \E e \in activeEntityIds :
                                          Listed(systems, e)]
    /\ UNCHANGED <<numEntity, sigTableSize, poolSize, poolData,
                   entitiesToBeAdded, entitiesToBeKilled, crashed>>

\* Registry::HasComponent
HasComponent(entity, c) == c \in entityComponentSignatures[entity]

\* Registry::GetComponent
GetComponent(entity, c) == poolData[c][entity]

\* AddComponent that resizes the pool to the id it is about to write
PoolSizeFor_ResizeToId(size, entity, num) ==
    LET created == IF size = 0 THEN PoolDefaultSize ELSE size
    IN  IF entity >= created THEN entity ELSE created

\* the size of the pool of a component type once AddComponent has made sure
\* the pool exists and holds the entity's slot
PoolSizeFor(size, entity, num) ==
    LET created == IF size = 0 THEN PoolDefaultSize ELSE size
    IN  IF entity >= created THEN num + PoolGrowth ELSE created

\* AddComponent that also reconciles the entity with the systems
AddComponent_Eager(entity, c, v) ==
    /\ ~crashed
    /\ UNCHANGED frame
    /\ entity \in activeEntityIds
    /\ poolSize' = [poolSize EXCEPT ![c] = PoolSizeFor(@, entity, numEntity)]
    /\ poolData' = [poolData EXCEPT ![c][entity] = v]
    /\ entityComponentSignatures' =
           [entityComponentSignatures EXCEPT ![entity] = @ \cup {c}]
    /\ systems' = AddEntityToSystems(RemoveEntityFromSystems(systems, entity),
                                     entityComponentSignatures', entity)
    /\ call' = [NoCall EXCEPT !.op = "AddComponent", !.e = entity, !.c = c,
                              !.v = v, !.had = HasComponent(entity, c),
                              !.old = GetComponent(entity, c)]
    /\ UNCHANGED <<numEntity, sigTableSize, entitiesToBeAdded,
                   entitiesToBeKilled, freeIds, activeEntityIds, crashed>>

\* AddComponent that keeps the value of a component already attached
AddComponent_KeepFirst(entity, c, v) ==
    /\ ~crashed
    /\ UNCHANGED frame
    /\ entity \in activeEntityIds
    /\ poolSize' = [poolSize EXCEPT ![c] = PoolSizeFor(@, entity, numEntity)]
    /\ poolData' = IF HasComponent(entity, c) THEN poolData
                   ELSE [poolData EXCEPT ![c][entity] = v]
    /\ entityComponentSignatures' =
           [entityComponentSignatures EXCEPT ![entity] = @ \cup {c}]
    /\ call' = [NoCall EXCEPT !.op = "AddComponent", !.e = entity, !.c = c,
                              !.v = v, !.had = HasComponent(entity, c),
                              !.old = GetComponent(entity, c)]
    /\ UNCHANGED <<numEntity, sigTableSize, systems, entitiesToBeAdded,
                   entitiesToBeKilled, freeIds, activeEntityIds, crashed>>

\* Registry::AddComponent; callers pass handles of entities they hold, which
\* are ids of the active set
AddComponent(entity, c, v) ==
    /\ ~crashed
    /\ UNCHANGED frame
    /\ entity \in activeEntityIds
    /\ poolSize' = [poolSize EXCEPT ![c] = PoolSizeFor(@, entity, numEntity)]
    /\ poolData' = [poolData EXCEPT ![c][entity] = v]
    /\ entityComponentSignatures' =
           [entityComponentSignatures EXCEPT ![entity] = @ \cup {c}]
    /\ call' = [NoCall EXCEPT !.op = "AddComponent", !.e = entity, !.c = c,
                              !.v = v, !.had = HasComponent(entity, c),
                              !.old = GetComponent(entity, c)]
    /\ UNCHANGED <<numEntity, sigTableSize, systems, entitiesToBeAdded,
                   entitiesToBeKilled, freeIds, activeEntityIds, crashed>>

\* RemoveComponent that also resets the pool slot
RemoveComponent_ClearSlot(entity, c) ==
    /\ ~crashed
    /\ UNCHANGED frame
    /\ entity \in activeEntityIds
    /\ entityComponentSignatures' =
           [entityComponentSignatures EXCEPT ![entity] = @ \ {c}]
    /\ poolData' = [poolData EXCEPT ![c][entity] = DefaultValue]
    /\ call' = [NoCall EXCEPT !.op = "RemoveComponent", !.e = entity, !.c = c,
                              !.had = HasComponent(entity, c),
                              !.old = GetComponent(entity, c)]
    /\ UNCHANGED <<numEntity, sigTableSize, poolSize, systems,
                   entitiesToBeAdded, entitiesToBeKilled, freeIds,
                   activeEntityIds, crashed>>

\* Registry::RemoveComponent, called like AddComponent
RemoveComponent(entity, c) ==
    /\ ~crashed
    /\ UNCHANGED frame
    /\ entity \in activeEntityIds
    /\ entityComponentSignatures' =
           [entityComponentSignatures EXCEPT ![entity] = @ \ {c}]
    /\ call' = [NoCall EXCEPT !.op = "RemoveComponent", !.e = entity, !.c = c,
                              !.had = HasComponent(entity, c),
                              !.old = GetComponent(entity, c)]
    /\ UNCHANGED <<numEntity, sigTableSize, poolSize, poolData, systems,
                   entitiesToBeAdded, entitiesToBeKilled, freeIds,
                   activeEntityIds, crashed>>

\* Registry::HasSystem
HasSystem(s) == s \in DOMAIN systems

\* AddSystem that stores the new instance over an existing entry
AddSystem_Replace(s) ==
    /\ ~crashed
    /\ UNCHANGED frame
    /\ systems' = [t \in DOMAIN systems \cup {s} |->
                       IF t = s THEN NewSystem(s) ELSE systems[t]]
    /\ call' = [NoCall EXCEPT !.op = "AddSystem", !.s = s,
                              !.had = HasSystem(s)]
    /\ UNCHANGED <<numEntity, entityComponentSignatures, sigTableSize,
                   poolSize, poolData, entitiesToBeAdded, entitiesToBeKilled,
                   freeIds, activeEntityIds, crashed>>

\* Registry::AddSystem: unordered_map::insert keeps an existing entry
AddSystem(s) ==
    /\ ~crashed
    /\ UNCHANGED frame
    /\ systems' = IF HasSystem(s) THEN systems
                  ELSE [t \in DOMAIN systems \cup {s} |->
                           IF t = s THEN NewSystem(s) ELSE systems[t]]
    /\ call' = [NoCall EXCEPT !.op = "AddSystem", !.s = s,
                              !.had = HasSystem(s)]
    /\ UNCHANGED <<numEntity, entityComponentSignatures, sigTableSize,
                   poolSize, poolData, entitiesToBeAdded, entitiesToBeKilled,
                   freeIds, activeEntityIds, crashed>>

\* Registry::RemoveSystem.  systems.erase(systems.end()) is undefined when the
\* type is not registered: the call either faults or leaves the map alone.
\* Nothing is written to std::cerr on either path.
RemoveSystem(s) ==
    /\ ~crashed
    /\ UNCHANGED frame
    /\ IF HasSystem(s)
       THEN /\ systems' = [t \in DOMAIN systems \ {s} |-> systems[t]]
            /\ UNCHANGED crashed
       ELSE /\ systems' = systems
            /\ crashed' \in BOOLEAN
    /\ call' = [NoCall EXCEPT !.op = "RemoveSystem", !.s = s,
                              !.had = HasSystem(s)]
    /\ UNCHANGED <<numEntity, entityComponentSignatures, sigTableSize,
                   poolSize, poolData, entitiesToBeAdded, entitiesToBeKilled,
                   freeIds, activeEntityIds>>

\* Registry::GetSystem.  *(system->second) on systems.end() is undefined when
\* the type is not registered: the call either faults or hands back a
\* reference to no system.  Nothing is written to std::cerr on either path.
GetSystem(s) ==
    /\ ~crashed
    /\ UNCHANGED frame
    /\ IF HasSystem(s) THEN UNCHANGED crashed ELSE crashed' \in BOOLEAN
    /\ call' = [NoCall EXCEPT !.op = "GetSystem", !.s = s,
                              !.had = HasSystem(s)]
    /\ UNCHANGED registry

\* ----------------------------------------------------------- System::Update
\* a system's update pass is in progress
Iterating == iteration.s # "none"

\* the range-for of a system's Update begins: GetSystemEntities returns a
\* copy of the member list and the loop runs over the copy
SystemUpdateBegin(s) ==
    /\ ~crashed
    /\ ~Iterating
    /\ HasSystem(s)
    /\ iteration' = [s |-> s, snapshot |-> systems[s].entities, pos |-> 0]
    /\ call' = [NoCall EXCEPT !.op = "GetSystemEntities", !.s = s]
    /\ UNCHANGED <<registry, crashed, game, subscribers, events>>

\* the loop takes the next entity of the copy and runs its handler (the
\* update function of its script, the onCollision of a collision); the
\* registry calls of the handler are the steps that follow
SystemUpdateStep ==
    /\ ~crashed
    /\ Iterating
    /\ iteration.pos < Len(iteration.snapshot)
    /\ iteration' = [iteration EXCEPT !.pos = @ + 1]
    /\ call' = [NoCall EXCEPT !.op = "System::Update", !.s = iteration.s,
                              !.e = iteration.snapshot[iteration.pos + 1]]
    /\ UNCHANGED <<registry, crashed, game, subscribers, events>>

\* the loop has run over the whole copy
SystemUpdateEnd ==
    /\ ~crashed
    /\ Iterating
    /\ iteration.pos = Len(iteration.snapshot)
    /\ iteration' = NoIteration
    /\ call' = [NoCall EXCEPT !.op = "System::Update", !.s = iteration.s]
    /\ UNCHANGED <<registry, crashed, game, subscribers, events>>

\* ------------------------------------------------- System, called directly
\* the number of entries of a member list that are the entity
Occurrences(sys, e) ==
    Cardinality({i \in 1 .. Len(sys.entities) : sys.entities[i] = e})

\* System::AddEntityToSystem called on a registered system
CallAddEntityToSystem(s, e) ==
    /\ ~crashed
    /\ UNCHANGED frame
    /\ HasSystem(s)
    /\ Len(systems[s].entities) < MaxMembers
    /\ systems' = [systems EXCEPT ![s] = AddEntityToSystem(@, e)]
    /\ call' = [NoCall EXCEPT !.op = "AddEntityToSystem", !.s = s, !.e = e,
                              !.had = e \in Members(systems[s]),
                              !.old = Occurrences(systems[s], e)]
    /\ UNCHANGED <<numEntity, entityComponentSignatures, sigTableSize,
                   poolSize, poolData, entitiesToBeAdded, entitiesToBeKilled,
                   freeIds, activeEntityIds, crashed>>

\* System::RemoveEntityFromSystem called on a registered system
CallRemoveEntityFromSystem(s, e) ==
    /\ ~crashed
    /\ UNCHANGED frame
    /\ HasSystem(s)
    /\ systems' = [systems EXCEPT ![s] = RemoveEntityFromSystem(@, e)]
    /\ call' = [NoCall EXCEPT !.op = "RemoveEntityFromSystem", !.s = s,
                              !.e = e,
                              !.had = e \in Members(systems[s]),
                              !.old = Occurrences(systems[s], e)]
    /\ UNCHANGED <<numEntity, entityComponentSignatures, sigTableSize,
                   poolSize, poolData, entitiesToBeAdded, entitiesToBeKilled,
                   freeIds, activeEntityIds, crashed>>

\* ------------------------------------------------------------ EventManager
\* subscribers[typeid(TEvent)].get() when it is not null, else no handler
HandlersOf(subs, E) ==
    IF E \in DOMAIN subs /\ subs[E] # NullList THEN subs[E] ELSE <<>>

\* subscribers[typeid(TEvent)]: operator[] inserts a null entry for a new key
Touched(subs, E) ==
    IF E \in DOMAIN subs THEN subs
    ELSE [t \in DOMAIN subs \cup {E} |-> IF t = E THEN NullList ELSE subs[t]]

\* SubscribeToEvent that stores a new list on every call
WithSubscriber_NewList(subs, E, owner) ==
    [t \in DOMAIN subs \cup {E} |-> IF t = E THEN <<owner>> ELSE subs[t]]

\* the map after SubscribeToEvent: a list is made when there is none and the
\* handler is pushed to its back
WithSubscriber(subs, E, owner) ==
    [t \in DOMAIN subs \cup {E} |->
        IF t = E THEN Append(HandlersOf(subs, E), owner) ELSE subs[t]]

\* EventManager::Reset
Reset ==
    /\ ~crashed
    /\ subscribers' = << >>
    /\ events' = NoEvents
    /\ call' = [NoCall EXCEPT !.op = "Reset"]
    /\ UNCHANGED <<registry, crashed, iteration, game>>

\* EventManager::SubscribeToEvent
SubscribeToEvent(E, owner) ==
    /\ ~crashed
    /\ Len(events.subscribed) < MaxHandlers
    /\ subscribers' = WithSubscriber(subscribers, E, owner)
    /\ events' = [subscribed |-> Append(events.subscribed, <<E, owner>>),
                  emitted |-> "none", invoked |-> <<>>]
    /\ call' = [NoCall EXCEPT !.op = "SubscribeToEvent"]
    /\ UNCHANGED <<registry, crashed, iteration, game>>

\* EventManager::EmitEvent: the handlers of the list are executed from its
\* front to its back; what the handlers do to the registry is not part of it
EmitEvent(E) ==
    /\ ~crashed
    /\ subscribers' = Touched(subscribers, E)
    /\ events' = [events EXCEPT !.emitted = E,
                                !.invoked = HandlersOf(subscribers, E)]
    /\ call' = [NoCall EXCEPT !.op = "EmitEvent"]
    /\ UNCHANGED <<registry, crashed, iteration, game>>

\* -------------------------------------------------------------------- Game
\* a statement of Game that is not a call of the registry: the game moves on
GameStep(from, to) ==
    /\ ~crashed
    /\ ~Iterating
    /\ game.at = from
    /\ game' = [game EXCEPT !.at = to]
    /\ call' = [NoCall EXCEPT !.op = "Game"]
    /\ UNCHANGED <<registry, crashed, iteration, subscribers, events>>

\* Game::RunScene: sceneManager->LoadScene() has created the entities of the
\* scene and the loop is entered
StartScene == GameStep("LoadScene", "processInput")

\* Game::processInput at the head of a frame; the P key toggles isPaused and
\* a mouse button emits a ClickEvent
processInput(key) ==
    /\ ~crashed
    /\ ~Iterating
    /\ game.at = "processInput"
    /\ game' = [at |-> "update", updates |-> 0,
                isPaused |-> IF key = "p" THEN ~game.isPaused
                             ELSE game.isPaused]
    /\ IF key = "mouse"
       THEN /\ subscribers' = Touched(subscribers, "ClickEvent")
            /\ events' = [events EXCEPT
                              !.emitted = "ClickEvent",
                              !.invoked = HandlersOf(subscribers, "ClickEvent")]
       ELSE /\ subscribers' = subscribers
            /\ events' = [events EXCEPT !.emitted = "none", !.invoked = <<>>]
    /\ call' = [NoCall EXCEPT !.op = "processInput"]
    /\ UNCHANGED <<registry, crashed, iteration>>

\* Game::update up to registry->Update(): if (isPaused) return; the
\* EventManager is reset and OverlapSystem and UISystem subscribe again
update ==
    IF game.isPaused THEN GameStep("update", "render")
    ELSE /\ ~crashed
         /\ ~Iterating
         /\ game.at = "update"
         /\ game' = [game EXCEPT !.at = "registry->Update"]
         /\ subscribers' =
                WithSubscriber(WithSubscriber(<< >>, "CollisionEvent",
                                              "OverlapSystem"),
                               "ClickEvent", "UISystem")
         /\ events' = [subscribed |-> << <<"CollisionEvent", "OverlapSystem">>,
                                         <<"ClickEvent", "UISystem">> >>,
                       emitted |-> "none", invoked |-> <<>>]
         /\ call' = [NoCall EXCEPT !.op = "update"]
         /\ UNCHANGED <<registry, crashed, iteration>>

\* Game::update after registry->Update() has returned: the systems run
UpdateReturned ==
    /\ ~crashed
    /\ game.at = "registry->Update"
    /\ call.op = "Update"
    /\ game' = [game EXCEPT !.at = "systems", !.updates = @ + 1]
    /\ call' = [NoCall EXCEPT !.op = "Game"]
    /\ UNCHANGED <<registry, crashed, iteration, subscribers, events>>

\* the last system of Game::update has returned
render == GameStep("systems", "render")

\* Game::render has returned and the loop tests IsSceneRunning()
EndFrame(running) ==
    IF running THEN GameStep("render", "processInput")
    ELSE GameStep("render", "ClearAllEntities")

\* Game::RunScene has returned and Game::run calls it again
RunSceneAgain ==
    /\ call.op = "ClearAllEntities"
    /\ GameStep("ClearAllEntities", "LoadScene")

\* ---------------------------------------------------------- specifications
\* every operation of the registry, in any order
Next ==
    \/ CreateEntity
    \/ \E e \in Handles : KillEntity(e)
    \/ Update
    \/ ClearAllEntities
    \/ \E e \in Ids, c \in Components : AddComponent(e, c, 1)
    \/ \E e \in Ids, c \in Components : RemoveComponent(e, c)
    \/ \E s \in SystemTypes : AddSystem(s)
    \/ \E s \in SystemTypes : RemoveSystem(s)
    \/ \E s \in SystemTypes : GetSystem(s)

Spec == Init /\ [][Next]_vars

\* the entity lifecycle alone: ids, staging sets and member lists
NextIds ==
    \/ CreateEntity
    \/ \E e \in Handles : KillEntity(e)
    \/ Update
    \/ ClearAllEntities
    \/ \E s \in SystemTypes : AddSystem(s)
    \/ \E s \in SystemTypes : RemoveSystem(s)

SpecIds == Init /\ [][NextIds]_vars

\* one scene: every operation but ClearAllEntities, with the number of ids
\* capped by MaxSceneEntities
NextScene ==
    \/ CreateEntity /\ numEntity' <= MaxSceneEntities
    \/ \E e \in 0 .. MaxSceneEntities : KillEntity(e)
    \/ Update
    \/ \E e \in Ids, c \in Components : AddComponent(e, c, 1)
    \/ \E e \in Ids, c \in Components : RemoveComponent(e, c)
    \/ \E s \in SystemTypes : AddSystem(s)
    \/ \E s \in SystemTypes : RemoveSystem(s)

SpecScene == Init /\ [][NextScene]_vars

\* components constructed with different values, no systems
NextPool ==
    \/ CreateEntity /\ numEntity' <= MaxSceneEntities
    \/ \E e \in 0 .. MaxSceneEntities : KillEntity(e)
    \/ Update
    \/ \E e \in Ids, c \in Components, v \in Values : AddComponent(e, c, v)
    \/ \E e \in Ids, c \in Components : RemoveComponent(e, c)

SpecPool == Init /\ [][NextPool]_vars

\* the end of a scene: entities with components and systems, then the
\* ClearAllEntities of Game::RunScene
NextTeardown ==
    \/ CreateEntity /\ numEntity' <= MaxSceneEntities
    \/ \E e \in 0 .. MaxSceneEntities : KillEntity(e)
    \/ Update
    \/ ClearAllEntities
    \/ \E e \in Ids, c \in Components : AddComponent(e, c, 1)
    \/ \E s \in SystemTypes : AddSystem(s)

SpecTeardown == Init /\ [][NextTeardown]_vars

\* the ids such a registry hands out next, around the default size of a pool
GrowthIds == PoolDefaultSize .. (PoolDefaultSize + MaxGrown - 1)

\* a registry that has created PoolDefaultSize entities and reconciled
\* them, before the first component is attached; these entities stay as
\* they are and the signatures and slots kept are those of GrowthIds
InitGrowth ==
    /\ numEntity = PoolDefaultSize
    /\ entityComponentSignatures = [e \in GrowthIds |-> {}]
    /\ sigTableSize =
           SignatureGrowth * ((PoolDefaultSize - 1) \div SignatureGrowth + 1)
    /\ poolSize = [c \in Components |-> 0]
    /\ poolData = [c \in Components |-> [e \in GrowthIds |-> DefaultValue]]
    /\ systems = << >>
    /\ entitiesToBeAdded = {}
    /\ entitiesToBeKilled = {}
    /\ freeIds = <<>>
    /\ activeEntityIds = 0 .. (PoolDefaultSize - 1)
    /\ crashed = FALSE
    /\ call = NoCall
    /\ iteration = NoIteration
    /\ game = NoGame
    /\ subscribers = << >>
    /\ events = NoEvents

\* entities created, given components and killed around the pool's default size
NextGrowth ==
    \/ CreateEntity
    \/ \E e \in GrowthIds : KillEntity(e)
    \/ Update
    \/ \E e \in GrowthIds, c \in Components : AddComponent(e, c, 1)
    \/ \E e \in GrowthIds, c \in Components : RemoveComponent(e, c)

SpecGrowth == InitGrowth /\ [][NextGrowth]_vars

\* frames of the game loop: the registry is reconciled between the passes of
\* the systems, and the handler a pass is running may kill entities
NextFrame ==
    \/ ~Iterating /\ CreateEntity
    \/ ~Iterating /\ Update
    \/ \E s \in SystemTypes : ~Iterating /\ AddSystem(s)
    \/ \E s \in SystemTypes : SystemUpdateBegin(s)
    \/ SystemUpdateStep
    \/ \E e \in Ids : iteration.pos > 0 /\ KillEntity(e)
    \/ SystemUpdateEnd

SpecFrame == Init /\ [][NextFrame]_vars

\* the member lists of registered systems, filled and emptied entry by entry
NextSystem ==
    \/ \E s \in SystemTypes : AddSystem(s)
    \/ \E s \in SystemTypes, e \in Ids : CallAddEntityToSystem(s, e)
    \/ \E s \in SystemTypes, e \in Ids : CallRemoveEntityFromSystem(s, e)

SpecSystem == Init /\ [][NextSystem]_vars

\* the EventManager under any order of its calls, and under the frames of an
\* empty scene
NextEvents ==
    \/ Reset
    \/ \E E \in EventTypes, owner \in Owners : SubscribeToEvent(E, owner)
    \/ \E E \in EventTypes : EmitEvent(E)
    \/ StartScene
    \/ \E key \in {"p", "mouse", "none"} : processInput(key)
    \/ update
    \/ game.at = "registry->Update" /\ call.op # "Update" /\ Update
    \/ UpdateReturned
    \/ render
    \/ EndFrame(TRUE)

SpecEvents == Init /\ [][NextEvents]_vars

\* Game::run: scenes are loaded, run frame by frame and cleared; the scripts
\* the systems run may kill entities (delete_Entity)
NextGame ==
    \/ \E s \in SystemTypes : game.at = "LoadScene" /\ AddSystem(s)
    \/ game.at = "LoadScene" /\ CreateEntity /\ numEntity' <= MaxSceneEntities
    \/ \E e \in Ids, c \in Components :
           game.at = "LoadScene" /\ AddComponent(e, c, 1)
    \/ StartScene
    \/ \E key \in {"p", "mouse", "none"} : processInput(key)
    \/ update
    \/ game.at = "registry->Update" /\ call.op # "Update" /\ Update
    \/ UpdateReturned
    \/ \E s \in SystemTypes : game.at = "systems" /\ SystemUpdateBegin(s)
    \/ SystemUpdateStep
    \/ \E e \in Ids : iteration.pos > 0 /\ KillEntity(e)
    \/ SystemUpdateEnd
    \/ render
    \/ \E running \in BOOLEAN : EndFrame(running)
    \/ /\ game.at = "ClearAllEntities" /\ call.op # "ClearAllEntities"
       /\ ClearAllEntities
    \/ RunSceneAgain

SpecGame == Init /\ [][NextGame]_vars

\* ------------------------------------------------------------------ claims
\* C1: CreateEntity never returns an id that is in activeEntityIds at the
\* moment of the call, so no two active entities share an id.
C1_CreateReturnsInactiveId ==
    [][call'.op = "CreateEntity" => call'.e \notin activeEntityIds]_vars

\* CreateEntity returned while another entity was active
C1_Witness ==
    /\ call.op = "CreateEntity"
    /\ activeEntityIds \ {call.e} # {}

\* C2: CreateEntity never returns the id of an entity that is staged in
\* entitiesToBeKilled, that is between KillEntity(e) and the next Update.
C2_NoReuseWhilePendingKill ==
    [][call'.op = "CreateEntity" => call'.e \notin entitiesToBeKilled]_vars

\* CreateEntity returned while a killed entity was waiting for Update
C2_Witness ==
    /\ call.op = "CreateEntity"
    /\ entitiesToBeKilled # {}
    /\ call.e \notin entitiesToBeKilled

\* C3: immediately after Update, every active entity is in the member list
\* of a registered system exactly when its signature contains the system's
\* required signature.
C3_MembershipMatchesSignature ==
    call.op = "Update" =>
        \A s \in DOMAIN systems : \A e \in activeEntityIds :
            e \in Members(systems[s]) <=>
                systems[s].componentSignature
                    \subseteq entityComponentSignatures[e]

\* C4: AddComponent leaves every member list as it was while HasComponent is
\* true at once; an entity enters a member list only in an Update.
C4_AddComponentDefersMembership ==
    [][/\ call'.op = "AddComponent" =>
              /\ systems' = systems
              /\ call'.c \in entityComponentSignatures'[call'.e]
       /\ (\E s \in DOMAIN systems' : \E e \in Members(systems'[s]) :
               s \notin DOMAIN systems \/ e \notin Members(systems[s]))
              => call'.op = "Update"]_vars

\* AddComponent set the last bit a registered system requires of an entity
\* that is not in the system's member list
C4_Witness ==
    /\ call.op = "AddComponent"
    /\ ~call.had
    /\ \E s \in DOMAIN systems :
           /\ call.c \in systems[s].componentSignature
           /\ systems[s].componentSignature
                  \subseteq entityComponentSignatures[call.e]
           /\ call.e \notin Members(systems[s])

\* C5: once KillEntity(e) has returned for an active e, e is in no member
\* list, neither while it waits in entitiesToBeKilled nor after the Update
\* that retires it.
C5_KilledEntityLeavesSystems ==
    [][/\ \A e \in entitiesToBeKilled' : ~Listed(systems', e)
       /\ call'.op = "Update" =>
              \A e \in entitiesToBeKilled : ~Listed(systems', e)]_vars

\* KillEntity took an entity out of a member list
C5_Witness ==
    /\ call.op = "KillEntity"
    /\ call.had
    /\ call.e \in entitiesToBeKilled
    /\ ~Listed(systems, call.e)

\* C6: right after KillEntity(e) on an active entity the signature of e is
\* empty: HasComponent is false for every component type.
C6_KillClearsSignature ==
    (call.op = "KillEntity" /\ call.err = "none") =>
        \A c \in Components : ~HasComponent(call.e, c)

\* KillEntity returned for an active entity whose pool slots hold components
C6_Witness ==
    /\ call.op = "KillEntity"
    /\ call.err = "none"
    /\ \A c \in Components : GetComponent(call.e, c) # DefaultValue

\* C7: after AddComponent<T>(e, v) GetComponent<T>(e) is v and the T bit is
\* set, also when e already had a T with another value.
C7_AddComponentOverwrites ==
    call.op = "AddComponent" =>
        /\ GetComponent(call.e, call.c) = call.v
        /\ HasComponent(call.e, call.c)

\* AddComponent replaced an attached component that had another value
C7_Witness ==
    /\ call.op = "AddComponent"
    /\ call.had
    /\ call.old # call.v
    /\ GetComponent(call.e, call.c) = call.v

\* C8: an entity created since the last Update and not killed is, after the
\* Update, in the member list of a registered system exactly when its
\* signature contains the system's required signature.
C8_NewEntityJoinsMatchingSystems ==
    [][call'.op = "Update" =>
          \A e \in (entitiesToBeAdded \cap activeEntityIds)
                       \ entitiesToBeKilled :
              \A s \in DOMAIN systems :
                  e \in Members(systems'[s]) <=>
                      systems[s].componentSignature
                          \subseteq entityComponentSignatures[e]]_vars

\* Update put an entity with both components into RenderSystem
C8_Witness ==
    /\ call.op = "Update"
    /\ "RenderSystem" \in DOMAIN systems
    /\ \E e \in activeEntityIds :
           /\ entityComponentSignatures[e] = {"Sprite", "Transform"}
           /\ e \in Members(systems["RenderSystem"])

\* C9: KillEntity on an id that is not active writes an error and changes
\* nothing of the registry.
C9_KillInactiveIsNoOp ==
    [][(call'.op = "KillEntity" /\ call'.e \notin activeEntityIds) =>
          /\ UNCHANGED registry
          /\ UNCHANGED crashed
          /\ call'.err = "kill of non-existent entity"]_vars

\* KillEntity was refused for the handle of an entity that Update retired
C9_Witness ==
    /\ call.op = "KillEntity"
    /\ call.err = "kill of non-existent entity"
    /\ \E i \in 1 .. Len(freeIds) : freeIds[i] = call.e
    /\ DOMAIN systems # {}

\* C10: RemoveSystem of a type that is not registered is logged and changes
\* nothing; the caller continues.
C10_RemoveMissingSystemIsNoOp ==
    [][(call'.op = "RemoveSystem" /\ call'.s \notin DOMAIN systems) =>
          /\ UNCHANGED registry
          /\ ~crashed'
          /\ call'.err # "none"]_vars

\* C11: GetSystem of a type that is not registered is reported on the
\* diagnostic channel and returns without effect instead of aborting.
C11_GetMissingSystemIsReported ==
    [][(call'.op = "GetSystem" /\ call'.s \notin DOMAIN systems) =>
          /\ UNCHANGED registry
          /\ ~crashed'
          /\ call'.err # "none"]_vars

\* C12: after ClearAllEntities the active set is empty and every id that was
\* active before the call is in freeIds, has an empty signature and is in no
\* member list.
C12_ClearAllRecyclesActive ==
    [][call'.op = "ClearAllEntities" =>
          /\ activeEntityIds' = {}
          /\ \A e \in activeEntityIds :
                 /\ \E i \in 1 .. Len(freeIds') : freeIds'[i] = e
                 /\ entityComponentSignatures'[e] = {}
                 /\ \A s \in DOMAIN systems' : e \notin Members(systems'[s])]_vars

\* ClearAllEntities recycled an entity that had its components attached and
\* was in a member list
C12_Witness ==
    /\ call.op = "ClearAllEntities"
    /\ call.had
    /\ \E i \in 1 .. Len(freeIds) :
           \A c \in Components : GetComponent(freeIds[i], c) # DefaultValue

\* C13: Update retires every entity of entitiesToBeKilled: afterwards the id
\* is not active, is in freeIds, has an empty signature and is in no member
\* list, and entitiesToBeAdded and entitiesToBeKilled are both empty.
C13_UpdateRetiresKilled ==
    [][call'.op = "Update" =>
          /\ \A e \in entitiesToBeKilled :
                 /\ e \notin activeEntityIds'
                 /\ \E i \in 1 .. Len(freeIds') : freeIds'[i] = e
                 /\ entityComponentSignatures'[e] = {}
                 /\ \A s \in DOMAIN systems' : e \notin Members(systems'[s])
          /\ entitiesToBeAdded' = {}
          /\ entitiesToBeKilled' = {}]_vars

\* Update retired a killed entity whose pool slots hold components, with
\* systems registered
C13_Witness ==
    /\ call.op = "Update"
    /\ call.had
    /\ DOMAIN systems # {}
    /\ \E i \in 1 .. Len(freeIds) :
           /\ freeIds[i] \notin activeEntityIds
           /\ \A c \in Components : GetComponent(freeIds[i], c) # DefaultValue

\* C14: CreateEntity takes ids from freeIds in FIFO order before the counter:
\* with a non-empty queue it returns the head and leaves numEntity alone, and
\* only with an empty queue it returns numEntity and increments it.
C14_FifoBeforeCounter ==
    [][call'.op = "CreateEntity" =>
          IF freeIds # <<>>
          THEN call'.e = Head(freeIds) /\ numEntity' = numEntity
          ELSE call'.e = numEntity /\ numEntity' = numEntity + 1]_vars

\* C15: the registry holds at most one instance per system type (systems is
\* a map keyed by the type), and AddSystem of a type that is registered keeps
\* the existing instance with its member list.
C15_AddSystemKeepsExisting ==
    [][(call'.op = "AddSystem" /\ call'.s \in DOMAIN systems) =>
          /\ DOMAIN systems' = DOMAIN systems
          /\ systems'[call'.s] = systems[call'.s]]_vars

\* AddSystem was called for a registered system that has members
C15_Witness ==
    /\ call.op = "AddSystem"
    /\ call.had
    /\ systems[call.s].entities # <<>>

\* C16: RemoveComponent<T>(e) clears only the T bit of the signature of e:
\* the value in the pool slot of e, the other bits of e, the signatures of
\* the other entities and every member list stay as they were.
C16_RemoveComponentClearsOnlyBit ==
    [][call'.op = "RemoveComponent" =>
          /\ entityComponentSignatures'[call'.e] =
                 entityComponentSignatures[call'.e] \ {call'.c}
          /\ \A e \in TrackedIds \ {call'.e} :
                 entityComponentSignatures'[e] = entityComponentSignatures[e]
          /\ poolData' = poolData
          /\ poolSize' = poolSize
          /\ systems' = systems]_vars

\* RemoveComponent took one of two components from an entity that is a
\* member of a system requiring it
C16_Witness ==
    /\ call.op = "RemoveComponent"
    /\ call.had
    /\ call.old # DefaultValue
    /\ entityComponentSignatures[call.e] # {}
    /\ \E s \in DOMAIN systems :
           /\ call.c \in systems[s].componentSignature
           /\ call.e \in Members(systems[s])

\* C17: for every component type the size of the pool is greater than every
\* id that AddComponent has given a component of the type, and no step makes
\* a pool smaller.
C17_PoolHoldsEveryComponent ==
    [][\A c \in Components :
          /\ poolSize'[c] >= poolSize[c]
          /\ \A e \in TrackedIds :
                 poolData'[c][e] # DefaultValue => e < poolSize'[c]]_vars

\* AddComponent grew a pool beyond its default size for an entity whose id
\* did not fit
C17_Witness ==
    /\ call.op = "AddComponent"
    /\ call.e >= PoolDefaultSize
    /\ poolSize[call.c] > PoolDefaultSize
    /\ GetComponent(call.e, call.c) = call.v

\* C18: once KillEntity(e) has been called, the update pass of a system that
\* is iterating its members does not process e afterwards.
C18_KilledEntityNotProcessed ==
    [][(call'.op = "System::Update" /\ call'.e \in Ids) =>
          call'.e \notin entitiesToBeKilled]_vars

\* C19: freeIds never holds an id that is active or staged in
\* entitiesToBeKilled, so the while loop of CreateEntity never iterates.
C19_FreeIdsAreReconciled ==
    \A i \in 1 .. Len(freeIds) :
        freeIds[i] \notin activeEntityIds \cup entitiesToBeKilled

\* C20: in every reachable state a call of CreateEntity ends: the while loop
\* and the recursive retry take at most every id of freeIds and then one
\* value of the counter.
C20_CreateEntityTerminates ==
    EndsWithin(freeIds, numEntity, sigTableSize, activeEntityIds,
               entitiesToBeKilled, Len(freeIds) + 1)

\* CreateEntity returned an id after it had discarded one that was staged
\* for killing
C20_Witness ==
    /\ call.op = "CreateEntity"
    /\ call.err = "reuse of id marked for killing"
    /\ call.e \in activeEntityIds

\* C21: in each frame that is not paused Registry::Update is called exactly
\* once, after every entity and component mutation of the frame and before
\* any system iterates its member list.
C21_UpdateOncePerFrame ==
    [][/\ (game.at = "render" /\ game'.at # "render" /\ ~game.isPaused)
              => game.updates = 1
       /\ (/\ call'.op \in {"CreateEntity", "KillEntity", "AddComponent",
                            "RemoveComponent"}
           /\ game.at # "LoadScene") => game.updates = 0
       /\ call'.op = "GetSystemEntities" => game.updates = 1]_vars

\* a sequence without the entries equal to e, the others in their order
RECURSIVE C22_Without(_, _)
C22_Without(seq, e) ==
    IF seq = <<>> THEN <<>>
    ELSE IF Head(seq) = e THEN C22_Without(Tail(seq), e)
         ELSE <<Head(seq)>> \o C22_Without(Tail(seq), e)

C23_CreatedAndKilledLeavesNoTrace ==
    [][call'.op = "Update" =>
          \A e \in entitiesToBeAdded \cap entitiesToBeKilled
                       \cap activeEntityIds :
              /\ \A s \in DOMAIN systems' : e \notin Members(systems'[s])
              /\ e \notin activeEntityIds'
              /\ \E i \in 1 .. Len(freeIds') : freeIds'[i] = e]_vars

\* Update reconciled an entity that was created and killed since the Update
\* before, with a system registered that takes every entity
C23_Witness ==
    /\ call.op = "Update"
    /\ call.old > 0
    /\ \E s \in DOMAIN systems : systems[s].componentSignature = {}

\* C24: id conservation: every id below numEntity is either in
\* activeEntityIds or exactly once in freeIds, never both and never neither.
C24_IdConservation ==
    \A id \in 0 .. (numEntity - 1) :
        LET inFree == {i \in 1 .. Len(freeIds) : freeIds[i] = id}
        IN  IF id \in activeEntityIds THEN inFree = {}
            ELSE Cardinality(inFree) = 1

\* C25: after ClearAllEntities entitiesToBeAdded and entitiesToBeKilled are
\* empty, so the next Update adds no entity of the cleared scene to a system
\* and pushes no id to freeIds.
C25_ClearAllEmptiesStaging ==
    [][/\ call'.op = "ClearAllEntities" =>
              entitiesToBeAdded' = {} /\ entitiesToBeKilled' = {}
       /\ (call.op = "ClearAllEntities" /\ call'.op = "Update") =>
              systems' = systems /\ freeIds' = freeIds]_vars

\* C26: every entity in a member list of a system is in activeEntityIds and
\* is not staged in entitiesToBeKilled, also in systems whose required
\* signature is empty.
C26_MembersAreAlive ==
    \A s \in DOMAIN systems : \A e \in Members(systems[s]) :
        e \in activeEntityIds /\ e \notin entitiesToBeKilled

\* C27: no member list of a system contains the same entity id twice.
C27_NoDuplicateMembers ==
    \A s \in DOMAIN systems :
        \A i, j \in 1 .. Len(systems[s].entities) :
            systems[s].entities[i] = systems[s].entities[j] => i = j

\* C28: whenever CreateEntity returns an id, fresh or reused, the signature
\* stored for the id is empty: HasComponent reports no component of the
\* previous owner (AddComponent is only called on active ids).
C28_CreatedEntityHasNoComponents ==
    call.op = "CreateEntity" =>
        \A c \in Components : ~HasComponent(call.e, c)

\* CreateEntity returned an id whose pool slots hold the components of its
\* previous owner
C28_Witness ==
    /\ call.op = "CreateEntity"
    /\ \A c \in Components : GetComponent(call.e, c) # DefaultValue
    /\ call.e \in activeEntityIds

\* the owners of the subscriptions of a log that are for event type E
C29_SubscribedTo(log, E) ==
    LET mine == SelectSeq(log, LAMBDA entry : entry[1] = E)
    IN  [i \in 1 .. Len(mine) |-> mine[i][2]]

\* C29: EmitEvent<E> executes every handler subscribed to E since the last
\* Reset exactly once, in subscription order, and no handler of another
\* type; after a Reset with no new subscription it executes none.  After the
\* Reset and the subscriptions of Game::update each event type has at most
\* one handler.
C29_EmitRunsSubscribersInOrder ==
    [][/\ events'.emitted # "none" =>
              events'.invoked = C29_SubscribedTo(events.subscribed,
                                                 events'.emitted)
       /\ (call.op = "Reset" /\ events'.emitted # "none") =>
              events'.invoked = <<>>
       /\ call'.op = "update" =>
              \A E \in EventTypes : Len(HandlersOf(subscribers', E)) <= 1]_vars

\* EmitEvent executed two handlers of its type and passed over a handler
\* subscribed to the other type
C29_Witness ==
    /\ call.op = "EmitEvent"
    /\ Len(events.invoked) >= 2
    /\ Len(events.invoked) < Len(events.subscribed)

\* C30: every id returned by CreateEntity is smaller than numEntity and
\* smaller than the size of the signature table, the table never shrinks,
\* and so every id the registry holds (active, staged or free) indexes the
\* table in range.
C30_IdsIndexSignatureTable ==
    [][/\ sigTableSize' >= sigTableSize
       /\ call'.op = "CreateEntity" =>
              /\ call'.e < numEntity'
              /\ call'.e < sigTableSize'
       /\ \A e \in activeEntityIds' \cup entitiesToBeAdded'
                  \cup entitiesToBeKilled'
                  \cup {freeIds'[i] : i \in 1 .. Len(freeIds')} :
              e < sigTableSize']_vars

\* CreateEntity returned an id it took from freeIds, below the newest id
C30_Witness ==
    /\ call.op = "CreateEntity"
    /\ call.e + 1 < numEntity
    /\ sigTableSize > 0

====
